---- MODULE Spec2Model ----
(***************************************************************************)
(* git_to_zip.py: package the files changed between two revisions into a   *)
(* versioned, dated archive in an output directory.                        *)
(*                                                                         *)
(* Text (refs, commit subjects, directory entry names) is a sequence of    *)
(* one-character strings, so that slicing, the regular expressions and the *)
(* f-strings of the source are computed character by character.            *)
(***************************************************************************)
EXTENDS Integers, Sequences, FiniteSets, TLC

None == <<"None">>

\* ------------------------------------------------------------------ bounds
MaxRuns == 2          \* invocations of main per behaviour
MaxInitEntries == 1   \* entries in the output directory before the first run
MaxRep == 11          \* run length of one character in a sanitizer input

\* --------------------------------------------------------- character sets
Digits == {"0","1","2","3","4","5","6","7","8","9"}

Letters ==
  {"a","b","c","d","e","f","g","h","i","j","k","l","m","n","o","p","q","r",
   "s","t","u","v","w","x","y","z","A","B","C","D","E","F","G","H","I","J",
   "K","L","M","N","O","P","Q","R","S","T","U","V","W","X","Y","Z"}

\* the class [a-zA-Z0-9_\-] of sanitize_filename
SafeChars == Letters \cup Digits \cup {"_", "-"}

Whitespace == {" ", "\n"}

DigitVal(c) ==
  CASE c = "0" -> 0 [] c = "1" -> 1 [] c = "2" -> 2 [] c = "3" -> 3
    [] c = "4" -> 4 [] c = "5" -> 5 [] c = "6" -> 6 [] c = "7" -> 7
    [] c = "8" -> 8 [] c = "9" -> 9

DigitChar(d) == <<"0","1","2","3","4","5","6","7","8","9">>[d + 1]

\* ------------------------------------------------------------ text helpers
\* s[:n]
Take(s, n) == SubSeq(s, 1, IF Len(s) < n THEN Len(s) ELSE n)

RECURSIVE Rep(_, _)
Rep(c, n) == IF n = 0 THEN << >> ELSE <<c>> \o Rep(c, n - 1)

StartsWith(s, p) == Len(s) >= Len(p) /\ SubSeq(s, 1, Len(p)) = p

\* str.replace(old, new) for a one-character old
RECURSIVE Replace(_, _, _)
Replace(s, old, new) ==
  IF s = << >> THEN << >>
  ELSE (IF Head(s) = old THEN new ELSE <<Head(s)>>) \o Replace(Tail(s), old, new)

\* re.sub(r'[^a-zA-Z0-9_\-]', '', s)
KeepSafe(s) == SelectSeq(s, LAMBDA c : c \in SafeChars)

RECURSIVE LStrip(_)
LStrip(s) == IF s # << >> /\ Head(s) \in Whitespace THEN LStrip(Tail(s)) ELSE s

RECURSIVE RStrip(_)
RStrip(s) ==
  IF s # << >> /\ s[Len(s)] \in Whitespace THEN RStrip(SubSeq(s, 1, Len(s) - 1)) ELSE s

\* str.strip()
Strip(s) == RStrip(LStrip(s))

\* ------------------------------------------------------ sanitize_filename
sanitize_filename(name) == KeepSafe(Replace(name, " ", <<"_">>))

\* variant: the message is not cut before it is sanitized
SanitizedMsgNoCut(message) == sanitize_filename(message)

\* the fragment create_update_zip puts in the name: sanitize_filename(message[:20])
MsgCut == 20
SanitizedMsg(message) == sanitize_filename(Take(message, MsgCut))

\* --------------------------------------------- float(), + 0.1 and {:.1f}
\* A parsed version is [ip |-> integer part as decimal digits without leading
\* zeros, fr |-> fraction in hundredths].  The integer part is kept as digits
\* because a file name may carry more digits than a machine integer holds.
RECURSIVE StripZeros(_)
StripZeros(ds) == IF ds # << >> /\ Head(ds) = 0 THEN StripZeros(Tail(ds)) ELSE ds

DigLess(a, b) ==
  \/ Len(a) < Len(b)
  \/ /\ Len(a) = Len(b)
     /\ \E i \in 1..Len(a) : a[i] < b[i] /\ \A j \in 1..(i - 1) : a[j] = b[j]

RECURSIVE DigInc(_)
DigInc(ds) ==
  IF ds = << >> THEN <<1>>
  ELSE IF ds[Len(ds)] < 9 THEN SubSeq(ds, 1, Len(ds) - 1) \o <<ds[Len(ds)] + 1>>
  ELSE DigInc(SubSeq(ds, 1, Len(ds) - 1)) \o <<0>>

DotIndex(text) == CHOOSE i \in 1..Len(text) : text[i] = "." /\ \A j \in 1..(i - 1) : text[j] # "."

\* float(match.group(1)); the entries of the model carry at most two
\* fractional digits, which hundredths hold exactly
FloatOf(text) ==
  LET dot == DotIndex(text)
      frd == SubSeq(text, dot + 1, Len(text))
  IN  [ip |-> StripZeros([i \in 1..(dot - 1) |-> DigitVal(text[i])]),
       fr |-> DigitVal(frd[1]) * 10 + (IF Len(frd) >= 2 THEN DigitVal(frd[2]) ELSE 0)]

FloatLess(v, w) == DigLess(v.ip, w.ip) \/ (v.ip = w.ip /\ v.fr < w.fr)

\* 2^50: from here on neighbouring doubles are at least 0.25 apart
TwoPow50 == <<1,1,2,5,8,9,9,9,0,6,8,4,2,6,2,4>>

\* x + 0.1 in IEEE-754 double arithmetic: at 2^50 and above the sum rounds
\* back to x; below, the error is far under a hundredth
FloatAddTenth(v) ==
  IF ~DigLess(v.ip, TwoPow50) THEN v
  ELSE IF v.fr + 10 >= 100 THEN [ip |-> DigInc(v.ip), fr |-> v.fr - 90]
  ELSE [ip |-> v.ip, fr |-> v.fr + 10]

\* sums x + 0.1 below 10 (in hundredths) that sit on a decimal tie x.y5 and
\* whose double lies above the tie, so that {:.1f} rounds them up
TieRoundsUp ==
  {15, 55, 65, 75, 105, 115, 135, 145, 155, 165, 175, 185, 195, 235, 245, 255,
   275, 285, 295, 305, 335, 345, 355, 375, 385, 395, 475, 575, 675, 775, 805,
   815, 865, 875, 915, 965, 975}

IpDigits(ip) == IF ip = << >> THEN <<"0">> ELSE [i \in 1..Len(ip) |-> DigitChar(ip[i])]

\* f"{version:.1f}"
FormatOneDecimal(v) ==
  LET t   == v.fr \div 10
      r   == v.fr % 10
      tie == IF Len(v.ip) <= 1
             THEN ((IF v.ip = << >> THEN 0 ELSE v.ip[1]) * 100 + v.fr) \in TieRoundsUp
             ELSE t % 2 = 1
      tenths == IF r > 5 \/ (r = 5 /\ tie) THEN t + 1 ELSE t
  IN  IF tenths = 10 THEN IpDigits(DigInc(v.ip)) \o <<".", "0">>
      ELSE IpDigits(v.ip) \o <<".", DigitChar(tenths)>>

\* ------------------------------------------------------- get_next_version
UpdatePrefix == <<"u","p","d","a","t","e","_">>

\* length of the run of digits of s that starts at index i
RECURSIVE DigitRun(_, _)
DigitRun(s, i) == IF i <= Len(s) /\ s[i] \in Digits THEN 1 + DigitRun(s, i + 1) ELSE 0

\* re.compile(r'update_(\d+\.\d+)').match(f): group(1), or None
VersionMatch(f) ==
  LET a  == Len(UpdatePrefix) + 1
      n1 == DigitRun(f, a)
      n2 == DigitRun(f, a + n1 + 1)
  IN  IF /\ StartsWith(f, UpdatePrefix)
         /\ n1 >= 1
         /\ a + n1 <= Len(f)
         /\ f[a + n1] = "."
         /\ n2 >= 1
      THEN SubSeq(f, a, a + n1 + n2)
      ELSE None

FloatMax(vs) == CHOOSE v \in vs : \A w \in vs : ~FloatLess(v, w)

Tenth == [ip |-> << >>, fr |-> 10]

\* listing is os.listdir(output_dir)
get_next_version(listing) ==
  LET versions == {FloatOf(VersionMatch(f)) : f \in {g \in listing : VersionMatch(g) # None}}
  IN  IF versions # {} THEN FloatAddTenth(FloatMax(versions)) ELSE Tenth

\* variant: the name is composed without the message fragment
ZipNameNoMessage(version, timestamp, message) ==
  <<"u","p","d","a","t","e","_">> \o FormatOneDecimal(version) \o <<"_">> \o timestamp
    \o <<".","z","i","p">>

\* zip_name of create_update_zip
ZipSuffix == <<".","z","i","p">>
ZipName(version, timestamp, message) ==
  UpdatePrefix \o FormatOneDecimal(version) \o <<"_">> \o timestamp \o <<"_">>
    \o SanitizedMsg(message) \o ZipSuffix

\* ------------------------------------------------- the repository (git)
\* Three commits in a line, 1 <- 2 <- 3, HEAD at 3.
HeadCommit == 3
Parent(c) == c - 1

RefHEAD == <<"H","E","A","D">>
RefHEADparent == <<"H","E","A","D","~","1">>
RefC1 == <<"c","1">>
RefC2 == <<"c","2">>
RefBad == <<"n","o","p","e">>
TagV1 == <<"v","1">>

\* the commit a ref names, 0 when git cannot resolve it
Resolve(ref) ==
  CASE ref = RefHEAD -> HeadCommit
    [] ref = RefHEADparent -> Parent(HeadCommit)
    [] ref = RefC1 -> 1
    [] ref = RefC2 -> 2
    [] ref = TagV1 -> 1
    [] OTHER -> 0

PathOrder == <<"a.txt", "b.py", "old.c">>
Paths == {PathOrder[i] : i \in 1..Len(PathOrder)}

\* content of each path in each commit's tree, 0 = absent
TreeOf(c) ==
  CASE c = 1 -> [a |-> 1, b |-> 1, o |-> 1]
    [] c = 2 -> [a |-> 2, b |-> 1, o |-> 1]
    [] c = 3 -> [a |-> 2, b |-> 3, o |-> 0]

Blob(c, path) ==
  CASE path = "a.txt" -> TreeOf(c).a
    [] path = "b.py" -> TreeOf(c).b
    [] path = "old.c" -> TreeOf(c).o

Subject(c) ==
  CASE c = 1 -> <<"i","n","i","t">>
    [] c = 2 -> <<"F","i","x"," ","b","u","g"," ","i","n"," ","p","a","r","s","e","r">>
    [] c = 3 -> <<"A","d","d"," ","t","e","s","t","s",":"," ","v","2","-","r","c","_","1","!">>

\* git diff --name-only --diff-filter=d b..h, as the lines of its output
GitDiffNames(b, h) ==
  SelectSeq(PathOrder, LAMBDA f : Blob(h, f) # 0 /\ Blob(b, f) # Blob(h, f))

\* git log b..h --pretty=%s: one subject per line, newest first
RECURSIVE GitLogOutput(_, _)
GitLogOutput(b, h) ==
  IF h <= b THEN << >> ELSE Subject(h) \o <<"\n">> \o GitLogOutput(b, Parent(h))

\* working trees a run may find on disk (content per path, 0 = no regular file)
Disks ==
  { [f \in Paths |-> Blob(HeadCommit, f)],
    [f \in Paths |-> IF f = "b.py" THEN 0 ELSE Blob(HeadCommit, f)],
    [f \in Paths |-> IF f = "a.txt" THEN 7 ELSE IF f = "old.c" THEN 5 ELSE Blob(HeadCommit, f)] }

Date1 == <<"2","0","2","4","0","3","1","5">>
Date2 == <<"2","0","2","4","0","3","1","6">>
Dates == {Date1, Date2}

\* where the tool may be started
CwdOutside == "/tmp"
CwdInside == "/repo/sub"
GitRoot == "/repo"

\* ------------------------------------------------------------------ state
Procs == {"p1", "p2"}

VARIABLES
  outdir,          \* args.output: entry name -> archive (sequence of entries)
  outdirExists,    \* whether args.output exists
  disk,            \* working tree: path -> content, 0 = no regular file
  runs,            \* invocations started so far
  pc,              \* position of each invocation in main
  args,            \* parsed command line
  cwd,             \* process working directory
  git_root, base_ref, head_ref, changed_files, version, commit_message,
  stamp,           \* timestamp of create_update_zip
  zip_path,        \* zip_name of create_update_zip
  status,          \* exit status, NoStatus while running
  stdout,          \* lines printed
  called,          \* components invoked in this run
  startDir,        \* outdir when the run started
  startExists,     \* outdirExists when the run started
  logFailed,       \* git log raised CalledProcessError in this run
  clobbered,       \* the archive path already existed when ZipFile opened it
  san_in, san_out  \* input and result of the sanitizer

locals == <<pc, args, cwd, git_root, base_ref, head_ref, changed_files, version,
            commit_message, stamp, zip_path, status, stdout, called, startDir,
            startExists, logFailed, clobbered>>
vars == <<outdir, outdirExists, disk, runs, locals, san_in, san_out>>

\* --------------------------------------------------------------- pure parts
\* get_changed_files, given that git diff succeeded
ExistingFiles(files, d) == SelectSeq(files, LAMBDA f : d[f] # 0)

\* get_commit_message
get_commit_message(b, h, fails) ==
  IF fails THEN << >>
  ELSE Replace(Strip(GitLogOutput(b, h)), "\n", <<" ", "|">>)

\* commit_message of main: get_commit_message(...) or f"{base_ref}_to_{head_ref}"
MessageOrLabel(msg, base, head) ==
  IF msg # << >> THEN msg ELSE base \o <<"_","t","o","_">> \o head

\* variant: entries take the content committed at HEAD, not the file on disk
ZipEntriesCommitted(files, d) ==
  [i \in 1..Len(files) |-> [name |-> files[i], data |-> Blob(HeadCommit, files[i])]]

\* the body of the with-block of create_update_zip: one entry per file
RECURSIVE ZipEntries(_, _)
ZipEntries(files, d) ==
  IF files = << >> THEN << >>
  ELSE <<[name |-> Head(files), data |-> d[Head(files)]]>> \o ZipEntries(Tail(files), d)

\* ZipFile(zip_path, 'w'): the path is created or truncated
WriteArchive(dir, name, entries) ==
  [n \in DOMAIN dir \cup {name} |-> IF n = name THEN entries ELSE dir[n]]

\* ------------------------------------------------------------ initial state
Entry13 == <<"u","p","d","a","t","e","_","1",".","3","_","2","0","2","4","0","1","0","1","_","x",".","z","i","p">>
Entry99 == <<"u","p","d","a","t","e","_","9",".","9","_","a",".","z","i","p">>
Entry025 == <<"u","p","d","a","t","e","_","0",".","2","5","_","z",".","z","i","p">>
EntryHuge == <<"u","p","d","a","t","e","_","1","0","0","0","0","0","0","0","0","0","0","0","0","0","0","0","0",".","0","_","b","i","g",".","z","i","p">>
EntryNotes == <<"n","o","t","e","s",".","t","x","t">>
EntryNoFrac == <<"u","p","d","a","t","e","_","5","_","x",".","z","i","p">>

\* names a user or an earlier run may have left in the output directory
InitEntries ==
  {Entry13, Entry99, Entry025, EntryHuge, EntryNotes, EntryNoFrac}

BaseArgs == {None, RefC1, RefHEAD, RefBad}
HeadArgs == {RefHEAD, RefC2}

Idle == [p \in Procs |-> None]

\* values of locals that are not assigned yet
NoVersion == [ip |-> << >>, fr |-> 0]
NoStatus == -1
NoRoot == "unset"

InitLocals ==
  /\ pc = [p \in Procs |-> "idle"]
  /\ args = [p \in Procs |-> [base |-> None, head |-> RefHEAD]]
  /\ cwd = [p \in Procs |-> CwdOutside]
  /\ git_root = [p \in Procs |-> NoRoot]
  /\ base_ref = Idle /\ head_ref = Idle
  /\ changed_files = Idle /\ commit_message = Idle
  /\ version = [p \in Procs |-> NoVersion]
  /\ stamp = Idle /\ zip_path = Idle
  /\ status = [p \in Procs |-> NoStatus]
  /\ stdout = [p \in Procs |-> << >>]
  /\ called = [p \in Procs |-> {}]
  /\ startDir = [p \in Procs |-> outdir]
  /\ startExists = [p \in Procs |-> outdirExists]
  /\ logFailed = [p \in Procs |-> FALSE]
  /\ clobbered = [p \in Procs |-> FALSE]

Init ==
  /\ \E names \in {S \in SUBSET InitEntries : Cardinality(S) <= MaxInitEntries} :
       /\ outdir = [n \in names |-> << >>]
       /\ outdirExists \in (IF names = {} THEN BOOLEAN ELSE {TRUE})
  /\ disk \in Disks
  /\ runs = 0
  /\ InitLocals
  /\ san_in = None /\ san_out = None

\* ------------------------------------------------------------------ main
Running(p) == pc[p] \notin {"idle", "exited"}

Say(p, line) == stdout' = [stdout EXCEPT ![p] = Append(@, line)]
Call(p, f) == called' = [called EXCEPT ![p] = @ \cup {f}]
Goto(p, label) == pc' = [pc EXCEPT ![p] = label]
Exit(p, code) == status' = [status EXCEPT ![p] = code] /\ Goto(p, "exited")

\* parser.parse_args() of a fresh process started in directory dir
Begin(p, a, dir) ==
  /\ runs' = runs + 1
  /\ pc' = [pc EXCEPT ![p] = "get_git_root"]
  /\ args' = [args EXCEPT ![p] = a]
  /\ cwd' = [cwd EXCEPT ![p] = dir]
  /\ git_root' = [git_root EXCEPT ![p] = NoRoot]
  /\ base_ref' = [base_ref EXCEPT ![p] = None]
  /\ head_ref' = [head_ref EXCEPT ![p] = None]
  /\ changed_files' = [changed_files EXCEPT ![p] = None]
  /\ version' = [version EXCEPT ![p] = NoVersion]
  /\ commit_message' = [commit_message EXCEPT ![p] = None]
  /\ stamp' = [stamp EXCEPT ![p] = None]
  /\ zip_path' = [zip_path EXCEPT ![p] = None]
  /\ status' = [status EXCEPT ![p] = NoStatus]
  /\ stdout' = [stdout EXCEPT ![p] = << >>]
  /\ called' = [called EXCEPT ![p] = {}]
  /\ startDir' = [startDir EXCEPT ![p] = outdir]
  /\ startExists' = [startExists EXCEPT ![p] = outdirExists]
  /\ logFailed' = [logFailed EXCEPT ![p] = FALSE]
  /\ clobbered' = [clobbered EXCEPT ![p] = FALSE]
  /\ UNCHANGED <<outdir, outdirExists, disk, san_in, san_out>>

\* one invocation after the other: a new process starts only when none runs
StartSeq(p) ==
  /\ p = "p1"
  /\ runs < MaxRuns
  /\ \A q \in Procs : ~Running(q)
  /\ \E b \in BaseArgs, h \in HeadArgs, dir \in {CwdOutside, CwdInside} :
       Begin(p, [base |-> b, head |-> h], dir)

\* simultaneous invocations: each process is started once, at any time
StartConc(p) ==
  /\ pc[p] = "idle"
  /\ \E b \in BaseArgs, h \in HeadArgs, dir \in {CwdOutside, CwdInside} :
       Begin(p, [base |-> b, head |-> h], dir)

\* variant: the failed root query is reported but the run goes on
GetGitRootNoExit(p) ==
  /\ pc[p] = "get_git_root"
  /\ Call(p, "get_git_root")
  /\ IF cwd[p] = CwdOutside
     THEN Say(p, "Error: Not a Git repository") /\ UNCHANGED git_root
     ELSE git_root' = [git_root EXCEPT ![p] = GitRoot] /\ UNCHANGED stdout
  /\ Goto(p, "chdir")
  /\ UNCHANGED <<outdir, outdirExists, disk, runs, args, cwd, base_ref, head_ref,
                 changed_files, version, commit_message, stamp, zip_path, status,
                 startDir, startExists, logFailed, clobbered, san_in, san_out>>

\* git_root = get_git_root()
GetGitRoot(p) ==
  /\ pc[p] = "get_git_root"
  /\ Call(p, "get_git_root")
  /\ IF cwd[p] = CwdOutside
     THEN /\ Say(p, "Error: Not a Git repository")
          /\ Exit(p, 1)
          /\ UNCHANGED git_root
     ELSE /\ git_root' = [git_root EXCEPT ![p] = GitRoot]
          /\ Goto(p, "chdir")
          /\ UNCHANGED <<status, stdout>>
  /\ UNCHANGED <<outdir, outdirExists, disk, runs, args, cwd, base_ref, head_ref,
                 changed_files, version, commit_message, stamp, zip_path,
                 startDir, startExists, logFailed, clobbered, san_in, san_out>>

\* os.chdir(git_root)
Chdir(p) ==
  /\ pc[p] = "chdir"
  /\ Call(p, "chdir")
  /\ cwd' = [cwd EXCEPT ![p] = git_root[p]]
  /\ Goto(p, "resolve")
  /\ UNCHANGED <<outdir, outdirExists, disk, runs, args, git_root, base_ref, head_ref,
                 changed_files, version, commit_message, stamp, zip_path, status,
                 stdout, startDir, startExists, logFailed, clobbered, san_in, san_out>>

\* base_ref = args.base or get_latest_tag() or 'HEAD~1'; head_ref = args.head
\* get_latest_tag() returns the tag, or None when git describe fails
ResolveRefs(p) ==
  /\ pc[p] = "resolve"
  /\ IF args[p].base # None
     THEN /\ base_ref' = [base_ref EXCEPT ![p] = args[p].base]
          /\ UNCHANGED called
     ELSE /\ Call(p, "get_latest_tag")
          /\ \E tag \in {TagV1, None} :
               base_ref' = [base_ref EXCEPT ![p] = IF tag # None THEN tag ELSE RefHEADparent]
  /\ head_ref' = [head_ref EXCEPT ![p] = args[p].head]
  /\ Goto(p, "makedirs")
  /\ UNCHANGED <<outdir, outdirExists, disk, runs, args, cwd, git_root,
                 changed_files, version, commit_message, stamp, zip_path, status,
                 stdout, startDir, startExists, logFailed, clobbered, san_in, san_out>>

\* os.makedirs(args.output, exist_ok=True)
Makedirs(p) ==
  /\ pc[p] = "makedirs"
  /\ Call(p, "makedirs")
  /\ outdirExists' = TRUE
  /\ Goto(p, "get_changed_files")
  /\ UNCHANGED <<outdir, disk, runs, args, cwd, git_root, base_ref, head_ref,
                 changed_files, version, commit_message, stamp, zip_path, status,
                 stdout, startDir, startExists, logFailed, clobbered, san_in, san_out>>

\* variant: main does not return early on an empty change set
GetChangedFilesNoEarlyReturn(p) ==
  /\ pc[p] = "get_changed_files"
  /\ Call(p, "get_changed_files")
  /\ LET b == Resolve(base_ref[p])
         h == Resolve(head_ref[p])
     IN  IF b = 0 \/ h = 0
         THEN /\ Say(p, "Error running git diff")
              /\ Exit(p, 1)
              /\ UNCHANGED changed_files
         ELSE /\ changed_files' = [changed_files EXCEPT ![p] =
                                     ExistingFiles(GitDiffNames(b, h), disk)]
              /\ Goto(p, "get_next_version")
              /\ UNCHANGED <<status, stdout>>
  /\ UNCHANGED <<outdir, outdirExists, disk, runs, args, cwd, git_root, base_ref,
                 head_ref, version, commit_message, stamp, zip_path,
                 startDir, startExists, logFailed, clobbered, san_in, san_out>>

\* variant: a failed diff is taken for an empty list of files
GetChangedFilesSwallowError(p) ==
  /\ pc[p] = "get_changed_files"
  /\ Call(p, "get_changed_files")
  /\ LET b == Resolve(base_ref[p])
         h == Resolve(head_ref[p])
         files == IF b = 0 \/ h = 0 THEN << >>
                  ELSE ExistingFiles(GitDiffNames(b, h), disk)
     IN  /\ changed_files' = [changed_files EXCEPT ![p] = files]
         /\ IF files = << >>
            THEN Say(p, "No changed files found") /\ Exit(p, 0)
            ELSE Goto(p, "get_next_version") /\ UNCHANGED <<status, stdout>>
  /\ UNCHANGED <<outdir, outdirExists, disk, runs, args, cwd, git_root, base_ref,
                 head_ref, version, commit_message, stamp, zip_path,
                 startDir, startExists, logFailed, clobbered, san_in, san_out>>

\* changed_files = get_changed_files(base_ref, head_ref), and the early return
GetChangedFiles(p) ==
  /\ pc[p] = "get_changed_files"
  /\ Call(p, "get_changed_files")
  /\ LET b == Resolve(base_ref[p])
         h == Resolve(head_ref[p])
         files == ExistingFiles(GitDiffNames(b, h), disk)
     IN  IF b = 0 \/ h = 0
         THEN /\ Say(p, "Error running git diff")
              /\ Exit(p, 1)
              /\ UNCHANGED changed_files
         ELSE /\ changed_files' = [changed_files EXCEPT ![p] = files]
              /\ IF files = << >>
                 THEN Say(p, "No changed files found") /\ Exit(p, 0)
                 ELSE Goto(p, "get_next_version") /\ UNCHANGED <<status, stdout>>
  /\ UNCHANGED <<outdir, outdirExists, disk, runs, args, cwd, git_root, base_ref,
                 head_ref, version, commit_message, stamp, zip_path,
                 startDir, startExists, logFailed, clobbered, san_in, san_out>>

\* version = get_next_version(args.output)
GetNextVersion(p) ==
  /\ pc[p] = "get_next_version"
  /\ Call(p, "get_next_version")
  /\ version' = [version EXCEPT ![p] = get_next_version(DOMAIN outdir)]
  /\ Goto(p, "get_commit_message")
  /\ UNCHANGED <<outdir, outdirExists, disk, runs, args, cwd, git_root, base_ref,
                 head_ref, changed_files, commit_message, stamp, zip_path, status,
                 stdout, startDir, startExists, logFailed, clobbered, san_in, san_out>>

\* commit_message = get_commit_message(base_ref, head_ref) or f"{base_ref}_to_{head_ref}"
\* git log fails when the history between the refs cannot be walked
GetCommitMessage(p) ==
  /\ pc[p] = "get_commit_message"
  /\ Call(p, "get_commit_message")
  /\ \E fails \in BOOLEAN :
       /\ logFailed' = [logFailed EXCEPT ![p] = fails]
       /\ commit_message' = [commit_message EXCEPT ![p] =
            MessageOrLabel(get_commit_message(Resolve(base_ref[p]), Resolve(head_ref[p]), fails),
                           base_ref[p], head_ref[p])]
  /\ Say(p, "Creating update package")
  /\ Goto(p, "create_update_zip")
  /\ UNCHANGED <<outdir, outdirExists, disk, runs, args, cwd, git_root, base_ref,
                 head_ref, changed_files, version, stamp, zip_path, status,
                 startDir, startExists, clobbered, san_in, san_out>>

\* zip_path = create_update_zip(changed_files, args.output, version, commit_message)
CreateUpdateZip(p) ==
  /\ pc[p] = "create_update_zip"
  /\ Call(p, "create_update_zip")
  /\ \E timestamp \in Dates :
       LET zip_name == ZipName(version[p], timestamp, commit_message[p])
       IN  /\ stamp' = [stamp EXCEPT ![p] = timestamp]
           /\ zip_path' = [zip_path EXCEPT ![p] = zip_name]
           /\ clobbered' = [clobbered EXCEPT ![p] = zip_name \in DOMAIN outdir]
           /\ outdir' = WriteArchive(outdir, zip_name, ZipEntries(changed_files[p], disk))
  /\ Say(p, "Update package created")
  /\ Exit(p, 0)
  /\ UNCHANGED <<outdirExists, disk, runs, args, cwd, git_root, base_ref, head_ref,
                 changed_files, version, commit_message,
                 startDir, startExists, logFailed, san_in, san_out>>

Step(p) ==
  \/ GetGitRoot(p)
  \/ Chdir(p)
  \/ ResolveRefs(p)
  \/ Makedirs(p)
  \/ GetChangedFiles(p)
  \/ GetNextVersion(p)
  \/ GetCommitMessage(p)
  \/ CreateUpdateZip(p)

Next == \E p \in Procs : StartSeq(p) \/ Step(p)

Spec == Init /\ [][Next]_vars

NextConc == \E p \in Procs : StartConc(p) \/ Step(p)

\* the race is over names in the output directory: one working tree is enough
InitConc == Init /\ disk = [f \in Paths |-> Blob(HeadCommit, f)]

SpecConc == InitConc /\ [][NextConc]_vars

\* ------------------------------------------- the sanitizer on its own
SanChars == {"a", "Z", "7", "_", "-", " ", "!", "|"}

\* messages made of two runs of characters, up to 2 * MaxRep long
SanInputs == {Rep(x, i) \o Rep(y, j) : x, y \in SanChars, i, j \in 0..MaxRep}

InitSan ==
  /\ outdir = << >> /\ outdirExists = FALSE
  /\ disk = [f \in Paths |-> Blob(HeadCommit, f)]
  /\ runs = 0
  /\ InitLocals
  /\ san_in \in SanInputs
  /\ san_out = None

\* sanitized_msg = sanitize_filename(message[:20])
Sanitize ==
  /\ san_out = None
  /\ san_out' = SanitizedMsg(san_in)
  /\ UNCHANGED <<outdir, outdirExists, disk, runs, locals, san_in>>

\* the fragment of an earlier name fed back as a message
SanitizeAgain ==
  /\ san_out # None
  /\ san_in # san_out
  /\ san_in' = san_out
  /\ san_out' = None
  /\ UNCHANGED <<outdir, outdirExists, disk, runs, locals>>

NextSan == Sanitize \/ SanitizeAgain

SpecSan == InitSan /\ [][NextSan]_vars

\* =================================================================== claims
Artifacts(listing) == {f \in listing : VersionMatch(f) # None}
EmbeddedVersions(listing) == {FloatOf(VersionMatch(f)) : f \in Artifacts(listing)}

\* v + 0.1 in decimal arithmetic
DecimalAddTenth(v) ==
  IF v.fr + 10 >= 100 THEN [ip |-> DigInc(v.ip), fr |-> v.fr - 90]
  ELSE [ip |-> v.ip, fr |-> v.fr + 10]

FractionDigits(name) ==
  LET m == VersionMatch(name) IN IF m = None THEN 0 ELSE Len(m) - DotIndex(m)

\* C1: for every output directory, get_next_version returns the largest
\* embedded version plus 0.1, or 0.1 when there is no artifact; entries that
\* are not artifacts do not change the result; the version written into the
\* new name has exactly one fractional digit.
C1_NextVersionIsMaxPlusTenth ==
  \A p \in Procs :
    /\ "get_next_version" \in called[p] =>
         /\ version[p] = (IF EmbeddedVersions(DOMAIN startDir[p]) = {} THEN Tenth
                          ELSE DecimalAddTenth(FloatMax(EmbeddedVersions(DOMAIN startDir[p]))))
         /\ version[p] = get_next_version(Artifacts(DOMAIN startDir[p]))
    /\ zip_path[p] # None => FractionDigits(zip_path[p]) = 1

\* C2: in sequential invocations, a run that produces an archive names it
\* with a version strictly greater than the version of every artifact that was
\* in the directory when the run started, and so never writes over an entry
\* that was already there.
C2_VersionsStrictlyIncrease ==
  \A p \in Procs :
    (pc[p] = "exited" /\ zip_path[p] # None) =>
      /\ \A v \in EmbeddedVersions(DOMAIN startDir[p]) :
           FloatLess(v, FloatOf(VersionMatch(zip_path[p])))
      /\ zip_path[p] \notin DOMAIN startDir[p]
      /\ ~clobbered[p]

\* C3: when the change set is empty the run exits 0 after reporting that no
\* changed files were found, the output directory holds the same files as
\* before, and the version allocator, the message aggregator and the archive
\* builder are not invoked.
C3_EmptyChangeSetNoArchive ==
  \A p \in Procs :
    changed_files[p] = << >> =>
      /\ pc[p] = "exited"
      /\ status[p] = 0
      /\ stdout[p] = <<"No changed files found">>
      /\ outdir = startDir[p]
      /\ zip_path[p] = None
      /\ called[p] \cap {"get_next_version", "get_commit_message", "create_update_zip"} = {}

C3_Witness ==
  \E p \in Procs :
    /\ changed_files[p] = << >>
    /\ pc[p] = "exited"
    /\ DOMAIN outdir # {}
    /\ Resolve(base_ref[p]) # Resolve(head_ref[p])

\* C4: the archive of a run whose change set is not empty holds exactly the
\* paths get_changed_files returned, each once, under its own relative path
\* and with the content the file has on disk.
C4_ArchiveHoldsExactlyChangeSet ==
  \A p \in Procs :
    (pc[p] = "exited" /\ zip_path[p] # None) =>
      LET archive == outdir[zip_path[p]]
          changed == ExistingFiles(GitDiffNames(Resolve(base_ref[p]), Resolve(head_ref[p])), disk)
      IN  /\ changed # << >>
          /\ changed_files[p] = changed
          /\ Len(archive) = Len(changed)
          /\ {archive[i].name : i \in 1..Len(archive)} = {changed[i] : i \in 1..Len(changed)}
          /\ \A i \in 1..Len(archive) :
               archive[i].name = changed[i] /\ archive[i].data = disk[archive[i].name]

C4_Witness ==
  \E p \in Procs :
    /\ pc[p] = "exited" /\ zip_path[p] # None
    /\ Len(outdir[zip_path[p]]) = 2
    /\ \E i \in 1..2 : outdir[zip_path[p]][i].data = 7

\* C5: a run started outside a repository ends with the diagnostic and exit
\* status 1 right after the root query: it changes no working directory,
\* creates no output directory, makes no other query and writes no archive.
C5_NotARepositoryFailsFast ==
  \A p \in Procs :
    (cwd[p] = CwdOutside /\ pc[p] \notin {"idle", "get_git_root"}) =>
      /\ pc[p] = "exited"
      /\ status[p] = 1
      /\ stdout[p] = <<"Error: Not a Git repository">>
      /\ called[p] = {"get_git_root"}
      /\ outdirExists = startExists[p]
      /\ outdir = startDir[p]
      /\ zip_path[p] = None

C5_Witness ==
  \E p \in Procs :
    /\ cwd[p] = CwdOutside /\ pc[p] = "exited"
    /\ ~outdirExists
    /\ args[p].base = RefC1

\* C6: when the name-only diff fails the run ends with a diagnostic and exit
\* status 1, and no archive is created in the output directory.
C6_DiffFailureIsFatal ==
  \A p \in Procs :
    ("get_changed_files" \in called[p]
       /\ (Resolve(base_ref[p]) = 0 \/ Resolve(head_ref[p]) = 0)) =>
      /\ pc[p] = "exited"
      /\ status[p] = 1
      /\ stdout[p] = <<"Error running git diff">>
      /\ outdir = startDir[p]
      /\ zip_path[p] = None

C6_Witness ==
  \E p \in Procs :
    /\ "get_changed_files" \in called[p]
    /\ base_ref[p] = RefBad
    /\ pc[p] = "exited"

\* C7: an explicit base is used as given; without one the base is the latest
\* tag if there is one, and otherwise the parent of the head reference of the
\* run, whatever head reference was supplied.
C7_FallbackIsParentOfHead ==
  \A p \in Procs :
    base_ref[p] # None =>
      IF args[p].base # None THEN base_ref[p] = args[p].base
      ELSE \/ base_ref[p] = TagV1
           \/ Resolve(base_ref[p]) = Parent(Resolve(head_ref[p]))

\* C8: the fragment in the artifact name is the first 20 characters of the
\* message with spaces turned into underscores and every character outside
\* [A-Za-z0-9_-] removed; it is at most 20 long and made of those characters;
\* a message made only of those characters comes back unchanged (cut to 20),
\* and sanitizing the fragment again gives the fragment.
C8_SanitizedFragment ==
  san_out # None =>
    LET cut == Take(san_in, MsgCut)
        underscored == [i \in 1..Len(cut) |-> IF cut[i] = " " THEN "_" ELSE cut[i]]
    IN  /\ san_out = SelectSeq(underscored, LAMBDA c : c \in SafeChars)
        /\ Len(san_out) <= MsgCut
        /\ \A i \in 1..Len(san_out) : san_out[i] \in SafeChars
        /\ (\A i \in 1..Len(san_in) : san_in[i] \in SafeChars) => san_out = cut
        /\ sanitize_filename(Take(san_out, MsgCut)) = san_out

C8_Witness ==
  /\ san_out # None
  /\ Len(san_in) > MsgCut
  /\ \E i \in 1..MsgCut : san_in[i] = " "
  /\ \E i \in 1..MsgCut : san_in[i] = "!"
  /\ Len(san_out) < MsgCut

\* C9: a run in which the commit-subject query fails ends with a non-zero
\* exit status and produces no archive.
C9_LogFailureIsFatal ==
  \A p \in Procs :
    (logFailed[p] /\ pc[p] = "exited") => (status[p] # 0 /\ zip_path[p] = None)

\* C10: two simultaneous runs that both read the directory before either
\* writes compute the same version; with the same date and the same sanitized
\* message they compose the same artifact name and the later write replaces
\* the earlier archive; with different sanitized messages the names differ.
C10_RaceOnVersion ==
  \A p, q \in Procs :
    p # q =>
      /\ (version[p] # NoVersion /\ version[q] # NoVersion /\ zip_path[p] = None /\ zip_path[q] = None)
           => version[p] = version[q]
      /\ (zip_path[p] # None /\ zip_path[q] # None) =>
           /\ (/\ version[p] = version[q]
               /\ stamp[p] = stamp[q]
               /\ SanitizedMsg(commit_message[p]) = SanitizedMsg(commit_message[q]))
                => (zip_path[p] = zip_path[q] /\ (clobbered[p] \/ clobbered[q]))
           /\ SanitizedMsg(commit_message[p]) # SanitizedMsg(commit_message[q])
                => zip_path[p] # zip_path[q]

C10_Witness ==
  /\ \A p \in Procs : pc[p] = "exited" /\ status[p] = 0 /\ zip_path[p] # None
  /\ zip_path["p1"] = zip_path["p2"]
  /\ version["p1"] = version["p2"]
  /\ version["p1"] = get_next_version(DOMAIN startDir["p1"])
  /\ EntryHuge \notin DOMAIN outdir
  /\ startDir["p1"] = startDir["p2"]
  /\ clobbered["p2"] /\ ~clobbered["p1"]
  /\ Cardinality(DOMAIN outdir) = Cardinality(DOMAIN startDir["p1"]) + 1

====
